---- MODULE Spec2Model ----
(***************************************************************************)
(* A model of redis_janitor/janitors.py (class RedisJanitor): the janitor  *)
(* that sweeps the `processing-<queue>:*` lists of a Redis work queue and  *)
(* repairs the entries whose hash record has not been updated for          *)
(* `stale_time` seconds.                                                   *)
(*                                                                         *)
(* Python values are modelled with one shape per kind of value so that     *)
(* `None`, strings and datetimes stay distinct:                            *)
(*   a time value  is [kind, text, val]  (None, a str, a datetime);        *)
(*   a name value  is [kind, chars]      (None or a str of tokens);        *)
(*   a status      is a string, "None" standing for a missing field.       *)
(***************************************************************************)
EXTENDS Integers, Sequences, FiniteSets, TLC

VARIABLES
    hashes,                 \* redis: entry id -> hash record (hgetall view)
    lists,                  \* redis: list name -> sequence of entry ids
    now,                    \* the wall clock, datetime.datetime.now(pytz.UTC)
    stale_time,             \* self.stale_time
    pod_refresh_interval,   \* self.pod_refresh_interval
    pods,                   \* self.pods
    pods_updated_at,        \* self.pods_updated_at
    total_repairs,          \* self.total_repairs
    cleaning_queue,         \* self.cleaning_queue
    pc,                     \* position of clean(): "idle" or "sweep"
    scan_left,              \* clean(): list names the scan has still to yield
    keys_left,              \* clean(): ids of the current lrange still to clean
    cleaned,                \* clean(): local counter `cleaned`
    last,                   \* history: the last clean_key call and its result
    fetch,                  \* history: gateway fetches made by _update_pods
    upd,                    \* history: the last update_pods call
    quiet,                  \* history: sweeps completed since the last write
    steps_back,             \* history: how often the wall clock was set back
    probe,                  \* history: the last direct is_stale_update_time call
    frame,                  \* clean_key(): the locals of a call in progress
    orphan,                 \* history: the id whose requeue a kill cut short
    requeues                \* history: id -> when it was last requeued, least gap

vars == <<hashes, lists, now, stale_time, pod_refresh_interval, pods,
          pods_updated_at, total_repairs, cleaning_queue, pc, scan_left,
          keys_left, cleaned, last, fetch, upd, quiet, steps_back, probe,
          frame, orphan, requeues>>

store   == <<hashes, lists>>
config  == <<stale_time, pod_refresh_interval>>
podvars == <<pods, pods_updated_at, fetch, upd>>
racevars == <<frame, orphan>>

----------------------------------------------------------------------------
(* Bounds of the model *)

MaxTime == 3        \* the clock runs over 0..MaxTime
MaxLen == 2         \* a consumer list of the initial store holds at most MaxLen ids
MaxRepairs == 2     \* no new sweep starts once total_repairs >= MaxRepairs
StaleTime == 2      \* the stale_time the instance of Spec is constructed with
RefreshInterval == 1 \* the pod_refresh_interval of the instance
MaxBack == 1        \* the wall clock is set back at most MaxBack times

Keys == {"k1", "k2"}

----------------------------------------------------------------------------
(* Python values *)

NoneTime == [kind |-> "none", text |-> "", val |-> 0]
EmptyStr == [kind |-> "str", text |-> "", val |-> 0]
BadStr   == [kind |-> "str", text |-> "bad", val |-> 0]
Dt(n)    == [kind |-> "datetime", text |-> "", val |-> n]

\* datetime.isoformat(): the string a datetime is stored as
isoformat(d) == [kind |-> "str", text |-> "iso", val |-> d.val]

\* dateutil.parser.parse: only an ISO string parses; anything else raises
CanParse(s) == s.text = "iso"
parse(s) == Dt(s.val)

\* Python truthiness of a time value: None and '' are falsy
Truthy(t) == ~(t.kind = "none" \/ (t.kind = "str" /\ t.text = ""))

NoneName == [kind |-> "none", chars |-> <<>>]
Name(cs) == [kind |-> "str", chars |-> cs]

\* str(x): str(None) is the four letters 'None'
str(x) == IF x.kind = "none" THEN <<"N", "o", "n", "e">> ELSE x.chars

\* str.startswith
startswith(s, p) == Len(p) <= Len(s) /\ SubSeq(s, 1, Len(p)) = p

ZipConsumer1 == <<"zip", "-", "consumer", "-", "1">>
Segmentation1 == <<"segmentation", "-", "1">>
Workers == {ZipConsumer1, Segmentation1}

----------------------------------------------------------------------------
(* The store *)

NoStatus == "None"
Statuses == {"new", "started", "done", "failed"}

\* hgetall of a key that does not exist: every .get() on it gives None
NoHash == [status |-> NoStatus, updated_at |-> NoneTime, updated_by |-> NoneName]

\* self.queue and self.processing_queue, and the consumers' lists
queue == <<"q">>
processing_queue == <<"processing", "q">>
ConsumerList(w) == processing_queue \o <<":">> \o w
ProcLists == {processing_queue} \cup {ConsumerList(w) : w \in Workers}
ListNames == {queue} \cup ProcLists

Elems(s) == {s[i] : i \in 1..Len(s)}

\* redis LREM name 1 value: drop the first occurrence of value
RECURSIVE RemoveFirst(_, _)
RemoveFirst(s, v) ==
    IF s = <<>> THEN <<>>
    ELSE IF Head(s) = v THEN Tail(s)
    ELSE <<Head(s)>> \o RemoveFirst(Tail(s), v)

lrem(ls, name, v) == [ls EXCEPT ![name] = RemoveFirst(ls[name], v)]
lpush(ls, name, v) == [ls EXCEPT ![name] = <<v>> \o ls[name]]
lrange(ls, name) == ls[name]

\* A write that replaces the whole record by the mapping it is given
hmset_replace(hs, key, status, updated_at) ==
    [hs EXCEPT ![key] = [status |-> status, updated_at |-> updated_at,
                         updated_by |-> NoneName]]

\* A write that leaves a record alone whose status is done or failed
hmset_if_unfinished(hs, key, status, updated_at) ==
    IF hs[key].status \in {"done", "failed"} THEN hs
    ELSE [hs EXCEPT ![key] =
            [@ EXCEPT !.status = status, !.updated_at = updated_at]]

\* redis HMSET key {status, updated_at}: the other fields are kept; a key
\* that does not exist is created
hmset(hs, key, status, updated_at) ==
    [hs EXCEPT ![key] = [@ EXCEPT !.status = status, !.updated_at = updated_at]]

hgetall(hs, key) == hs[key]

----------------------------------------------------------------------------
(* RedisJanitor: the pure helpers *)

whitelisted_pods == {<<"zip", "-", "consumer">>}

is_whitelisted(pod_name) ==
    \E x \in whitelisted_pods : startswith(str(pod_name), x)

\* history: no direct call of is_stale_update_time was made
NoProbe == [updated_time |-> NoneTime, arg |-> [kind |-> "none", val |-> 0],
            ret |-> "none", at |-> 0]

\* The optional argument stale_time of is_stale_update_time
NoArg == [kind |-> "none", val |-> 0]
IntArg(n) == [kind |-> "int", val |-> n]

\* `stale_time if stale_time else self.stale_time`: None and 0 are falsy
EffectiveStaleTime(arg) ==
    IF arg.kind = "none" \/ arg.val = 0 THEN stale_time ELSE arg.val

\* is_stale_update_time with the boundary excluded: `>` for `>=`
is_stale_update_time_exclusive(updated_time, arg) ==
    LET st == IF arg.kind = "none" \/ arg.val = 0 THEN stale_time ELSE arg.val
    IN
    IF ~Truthy(updated_time) THEN "false"
    ELSE IF ~(st > 0) THEN "false"
    ELSE IF updated_time.kind = "str" /\ ~CanParse(updated_time) THEN "raise"
    ELSE IF now - updated_time.val > st THEN "true" ELSE "false"

\* is_stale_update_time one second early: stale from stale_time - 1 on
is_stale_update_time_early(updated_time, arg) ==
    LET st == IF arg.kind = "none" \/ arg.val = 0 THEN stale_time ELSE arg.val
    IN
    IF ~Truthy(updated_time) THEN "false"
    ELSE IF ~(st > 0) THEN "false"
    ELSE IF updated_time.kind = "str" /\ ~CanParse(updated_time) THEN "raise"
    ELSE IF now - updated_time.val >= st - 1 THEN "true" ELSE "false"

\* The result is "true", "false", or "raise" when dateutil cannot parse
is_stale_update_time(updated_time, arg) ==
    LET st == EffectiveStaleTime(arg) IN
    IF ~Truthy(updated_time) THEN "false"
    ELSE IF ~(st > 0) THEN "false"
    ELSE IF updated_time.kind = "str" /\ ~CanParse(updated_time) THEN "raise"
    ELSE LET t == IF updated_time.kind = "str" THEN parse(updated_time)
                  ELSE updated_time
             update_diff == now - t.val
         IN IF update_diff >= st THEN "true" ELSE "false"

\* A removal from the list that clean() is reading
remove_key_from_queue_scanned(ls, redis_key) ==
    lrem(ls, cleaning_queue, redis_key)

\* remove_key_from_queue, lines 127-135: LREM on `processing-<queue>`
remove_key_from_queue(ls, redis_key) == lrem(ls, processing_queue, redis_key)

\* A restart that writes the status and leaves updated_at as it was
restart_redis_key_no_refresh(hs, ls, redis_key, new_status) ==
    [hashes |-> hmset(hs, redis_key, new_status, hs[redis_key].updated_at),
     lists  |-> lpush(remove_key_from_queue(ls, redis_key), queue, redis_key)]

\* hmset, then remove_key_from_queue, then lpush onto the work queue
restart_redis_key(hs, ls, redis_key, new_status) ==
    [hashes |-> hmset(hs, redis_key, new_status, isoformat(Dt(now))),
     lists  |-> lpush(remove_key_from_queue(ls, redis_key), queue, redis_key)]

\* clean_key without the whitelist: every restarted key becomes new
NewStatus_always_new(hvals) == "new"

\* clean_key consulting the pods snapshot: the entry of a worker that is in
\* the snapshot and Running keeps its status
NewStatus_live(hvals) ==
    IF \/ is_whitelisted(hvals.updated_by)
       \/ /\ hvals.updated_by.chars \in DOMAIN pods'
          /\ pods'[hvals.updated_by.chars].phase = "Running"
    THEN hvals.status ELSE "new"

\* clean_key, lines 202-206: the status restart_redis_key is given
NewStatus(hvals) ==
    IF is_whitelisted(hvals.updated_by) THEN hvals.status ELSE "new"

----------------------------------------------------------------------------
(* The worker snapshot *)

Pod(n, ph) == [name |-> n, phase |-> ph]

\* What the kubernetes API answers: an ApiException, or the pods' list
ApiException == [ok |-> FALSE, items |-> <<>>]
Response(items) == [ok |-> TRUE, items |-> items]
Responses == {ApiException, Response(<<>>),
              Response(<<Pod(Segmentation1, "Running")>>)}

\* list_pod_for_all_namespaces without its try/except
list_pod_for_all_namespaces_uncaught(resp) ==
    [raises |-> ~resp.ok, items |-> resp.items]

\* list_pod_for_all_namespaces, lines 95-106: an ApiException is caught and
\* logged, and the empty list is returned
list_pod_for_all_namespaces(resp) ==
    [raises |-> FALSE, items |-> IF resp.ok THEN resp.items ELSE <<>>]

\* {pod.metadata.name: pod for pod in namespaced_pods}
PodDict(items) ==
    [n \in {items[i].name : i \in 1..Len(items)} |->
        LET i == CHOOSE j \in 1..Len(items) :
                    /\ items[j].name = n
                    /\ \A k \in (j+1)..Len(items) : items[k].name # n
        IN items[i]]

\* history: whether a fetch was made, when the last one was, and the least
\* time between one fetch and the next (-1: there were no two)
NoFetch == [made |-> FALSE, last_at |-> 0, min_gap |-> -1]

NoteFetch(f) ==
    [made |-> TRUE,
     last_at |-> now,
     min_gap |-> IF ~f.made THEN f.min_gap
                 ELSE IF f.min_gap = -1 \/ now - f.last_at < f.min_gap
                      THEN now - f.last_at
                      ELSE f.min_gap]

\* history of the last update_pods call: whether it asked the gateway,
\* whether the gateway answered, whether the call raised, and the snapshot
\* held before it; flip changes with every call
NoUpd == [called |-> FALSE, flip |-> FALSE, fetched |-> FALSE, ok |-> FALSE,
          raised |-> FALSE, before |-> PodDict(<<>>)]

Upd(fetched, ok, raised) ==
    [called |-> TRUE, flip |-> ~upd.flip, fetched |-> fetched, ok |-> ok,
     raised |-> raised, before |-> pods]

\* _update_pods, lines 150-154, when the API answers resp
_update_pods(resp) ==
    LET namespaced_pods == list_pod_for_all_namespaces(resp)
    IN /\ fetch' = NoteFetch(fetch)
       /\ IF namespaced_pods.raises
          THEN /\ UNCHANGED <<pods, pods_updated_at>>
               /\ upd' = Upd(TRUE, resp.ok, TRUE)
          ELSE /\ pods' = PodDict(namespaced_pods.items)
               /\ pods_updated_at' = Dt(now)
               /\ upd' = Upd(TRUE, resp.ok, FALSE)

\* update_pods refreshing on every call
NeedsRefresh_always == TRUE

\* update_pods, lines 165-166: whether the snapshot is refreshed
NeedsRefresh ==
    LET diff == pods_updated_at.val - now
    IN diff > pod_refresh_interval

\* update_pods, lines 156-167
update_pods ==
    IF pods_updated_at.kind = "none"
    THEN \E resp \in Responses : _update_pods(resp)
    ELSE IF pods_updated_at.kind # "datetime"
    THEN /\ UNCHANGED <<pods, pods_updated_at, fetch>>
         /\ upd' = Upd(FALSE, FALSE, TRUE)
    ELSE IF NeedsRefresh
    THEN \E resp \in Responses : _update_pods(resp)
    ELSE /\ UNCHANGED <<pods, pods_updated_at, fetch>>
         /\ upd' = Upd(FALSE, FALSE, FALSE)

----------------------------------------------------------------------------
(* RedisJanitor.clean and clean_key *)

Min(a, b) == IF a < b THEN a ELSE b

\* history: this step is not a completed sweep
Dirty == IF pc = "idle" THEN 0 ELSE -1

NoLast == [key |-> "", q |-> <<>>, hvals |-> NoHash, ret |-> "none",
           outcome |-> "none"]

\* history: no call of clean_key is in progress
NoFrame == [key |-> "", hvals |-> NoHash, new_status |-> "", overwrote |-> FALSE]

\* history: an id that was never requeued
NoRequeue == [at |-> -1, gap |-> -1]

\* history: `key` is requeued now
NoteRequeue(rq, key) ==
    [rq EXCEPT ![key] =
        [at |-> now,
         gap |-> IF @.at = -1 THEN -1
                 ELSE IF @.gap = -1 THEN now - @.at
                 ELSE Min(@.gap, now - @.at)]]

Called(key, hvals, ret, outcome) ==
    [key |-> key, q |-> cleaning_queue, hvals |-> hvals, ret |-> ret,
     outcome |-> outcome]

\* get_processing_keys: the names matching `processing-<queue>:*` of the
\* lists that exist (redis holds no empty list)
Matches(name) == startswith(name, processing_queue \o <<":">>)

get_processing_keys == {n \in ListNames : Matches(n) /\ lists[n] # <<>>}

\* The orders in which a scan can yield a set of names
Orders(S) ==
    {s \in UNION {[1..n -> S] : n \in {Cardinality(S)}} :
        \A i, j \in 1..Len(s) : i # j => s[i] # s[j]}

\* clean(), line 218-220: a sweep starts and the scan is opened
Clean ==
    /\ pc = "idle"
    /\ total_repairs < MaxRepairs
    /\ \E order \in Orders(get_processing_keys) : scan_left' = order
    /\ cleaned' = 0
    /\ pc' = "sweep"
    /\ keys_left' = <<>>
    /\ UNCHANGED <<store, now, config, podvars, total_repairs, cleaning_queue,
                   last, quiet, steps_back, probe, racevars, requeues>>

\* clean(), lines 220-222: the next list of the scan is read
NextQueue ==
    /\ pc = "sweep"
    /\ keys_left = <<>>
    /\ scan_left # <<>>
    /\ cleaning_queue' = Head(scan_left)
    /\ keys_left' = lrange(lists, Head(scan_left))
    /\ scan_left' = Tail(scan_left)
    /\ UNCHANGED <<store, now, config, podvars, total_repairs, pc, cleaned,
                   last, quiet, steps_back, probe, racevars, requeues>>

\* clean() catching the exception of a call and going on with the next id
Abort_swallow ==
    /\ keys_left' = Tail(keys_left)
    /\ UNCHANGED <<pc, scan_left, cleaning_queue, quiet, cleaned>>

\* An exception leaves clean(): the sweep is over, total_repairs is not touched
Abort ==
    /\ pc' = "idle"
    /\ scan_left' = <<>>
    /\ keys_left' = <<>>
    /\ quiet' = 0
    /\ UNCHANGED <<cleaned, cleaning_queue>>

Continue(is_key_cleaned) ==
    /\ keys_left' = Tail(keys_left)
    /\ cleaned' = cleaned + (IF is_key_cleaned THEN 1 ELSE 0)
    /\ UNCHANGED <<pc, scan_left, cleaning_queue, quiet>>

\* clean(), lines 223-224: one whole call clean_key(key)
CleanKey ==
    /\ pc = "sweep"
    /\ keys_left # <<>>
    /\ LET key == Head(keys_left)
           hvals == hgetall(hashes, key)
           key_status == hvals.status
           stale == is_stale_update_time(hvals.updated_at, NoArg)
       IN /\ update_pods
          /\ IF upd'.raised \/ stale = "raise"
             THEN /\ UNCHANGED <<store, requeues>>
                  /\ last' = Called(key, hvals, "raise", "raise")
                  /\ Abort
             ELSE IF stale = "false"
             THEN /\ UNCHANGED <<store, requeues>>
                  /\ last' = Called(key, hvals, "False", "Untouched")
                  /\ Continue(FALSE)
             ELSE IF key_status \in {"done", "failed"}
             THEN /\ lists' = remove_key_from_queue(lists, key)
                  /\ UNCHANGED <<hashes, requeues>>
                  /\ last' = Called(key, hvals, "True", "Removed")
                  /\ Continue(TRUE)
             ELSE LET r == restart_redis_key(hashes, lists, key,
                                             NewStatus(hvals))
                  IN /\ hashes' = r.hashes
                     /\ lists' = r.lists
                     /\ last' = Called(key, hvals, "True", "Requeued")
                     /\ requeues' = NoteRequeue(requeues, key)
                     /\ Continue(TRUE)
    /\ UNCHANGED <<now, config, total_repairs, steps_back, probe, racevars>>

\* clean(), lines 226-227: `if cleaned: self.total_repairs += cleaned`
AddRepairs_overwrite(total, n) == IF n # 0 THEN n ELSE total

AddRepairs(total, n) == IF n # 0 THEN total + n ELSE total

\* clean(), lines 226-229: the loop is finished
CleanDone ==
    /\ pc = "sweep"
    /\ keys_left = <<>>
    /\ scan_left = <<>>
    /\ total_repairs' = AddRepairs(total_repairs, cleaned)
    /\ pc' = "idle"
    /\ quiet' = IF quiet = -1 THEN 0 ELSE Min(quiet + 1, 2)
    /\ UNCHANGED <<store, now, config, podvars, cleaning_queue, scan_left,
                   keys_left, cleaned, last, steps_back, probe, racevars,
                   requeues>>

----------------------------------------------------------------------------
(* The clock *)

\* Time passes
Tick ==
    /\ now < MaxTime
    /\ now' = now + 1
    /\ quiet' = Dirty
    /\ UNCHANGED <<store, config, podvars, total_repairs, cleaning_queue, pc,
                   scan_left, keys_left, cleaned, last, steps_back, probe, racevars,
                   requeues>>

\* The wall clock is set back (datetime.now is not monotonic)
ClockBack ==
    /\ steps_back < MaxBack
    /\ \E t \in 0..(now - 1) : now' = t
    /\ steps_back' = steps_back + 1
    /\ quiet' = Dirty
    /\ UNCHANGED <<store, config, podvars, total_repairs, cleaning_queue, pc,
                   scan_left, keys_left, cleaned, last, probe, racevars,
                   requeues>>

----------------------------------------------------------------------------
(* The janitor over a store that producers and consumers have left behind *)

\* The sequences over S of length at most n
SeqsUpTo(S, n) == UNION {[1..m -> S] : m \in 0..n}

\* A record as a producer or a consumer writes it, at time 0
Record(s, by) ==
    [status |-> s, updated_at |-> isoformat(Dt(0)), updated_by |-> by]

\* The records the first entry is found with: none (expired), or one that a
\* producer queued or a consumer left in progress or finished
FirstRecords ==
    {NoHash} \cup
    {Record(s, by) : s \in {"new", "started", "done", "failed"},
                     by \in {NoneName, Name(ZipConsumer1), Name(Segmentation1)}}

SecondRecords ==
    {NoHash, Record("started", Name(Segmentation1)),
     Record("done", Name(Segmentation1))}

\* The lists the consumers have left: their own processing lists hold ids
\* they claimed; `processing-<queue>` itself is used by no consumer of the
\* kiosk, and may hold an id from elsewhere
InitLists ==
    {[n \in ListNames |->
        IF n = ConsumerList(ZipConsumer1) THEN a
        ELSE IF n = ConsumerList(Segmentation1) THEN b
        ELSE IF n = processing_queue THEN c
        ELSE <<>>] :
     a \in SeqsUpTo(Keys, MaxLen),
     b \in {<<>>, <<"k2">>},
     c \in {<<>>, <<"k1">>}}

\* RedisJanitor.__init__, lines 52-72
InitFields ==
    /\ pods = PodDict(<<>>)
    /\ total_repairs = 0
    /\ cleaning_queue = <<>>
    /\ pc = "idle"
    /\ scan_left = <<>>
    /\ keys_left = <<>>
    /\ cleaned = 0
    /\ last = NoLast
    /\ fetch = NoFetch
    /\ upd = NoUpd
    /\ quiet = 0
    /\ steps_back = 0
    /\ probe = NoProbe
    /\ frame = NoFrame
    /\ orphan = ""
    /\ requeues = [k \in Keys |-> NoRequeue]

InitJanitor ==
    /\ pods_updated_at = NoneTime
    /\ InitFields

Init ==
    /\ hashes \in {[k \in Keys |-> IF k = "k1" THEN r1 ELSE r2] :
                     r1 \in FirstRecords, r2 \in SecondRecords}
    /\ lists \in InitLists
    /\ now = 0
    /\ stale_time = StaleTime
    /\ pod_refresh_interval = RefreshInterval
    /\ InitJanitor

Next ==
    \/ Clean
    \/ NextQueue
    \/ CleanKey
    \/ CleanDone
    \/ Tick

Spec == Init /\ [][Next]_vars

----------------------------------------------------------------------------
(* The janitor with a stale_time short enough for an entry to be stale twice *)

\* The ids of the scanned lists, one after the other
Scanned(ls) ==
    ls[ConsumerList(ZipConsumer1)] \o ls[ConsumerList(Segmentation1)]

NoRepeat(s) == \A i, j \in 1..Len(s) : i # j => s[i] # s[j]

InitShort ==
    /\ hashes \in {[k \in Keys |-> IF k = "k1" THEN r1 ELSE r2] :
                     r1 \in FirstRecords, r2 \in SecondRecords}
    /\ lists \in InitLists
    /\ now = 0
    /\ stale_time = StaleTime - 1
    /\ pod_refresh_interval = RefreshInterval
    /\ InitJanitor

SpecShort == InitShort /\ [][Next]_vars

\* The same with every id claimed once: no id is twice in the scanned lists
InitOnce ==
    /\ InitShort
    /\ NoRepeat(Scanned(lists))

SpecOnce == InitOnce /\ [][Next]_vars

----------------------------------------------------------------------------
(* The janitor over a store with a record it cannot read *)

\* A record whose updated_at is text that dateutil cannot parse
BadRecord ==
    [status |-> "started", updated_at |-> BadStr,
     updated_by |-> Name(Segmentation1)]

\* The store holds a record with an unparsable updated_at, or the caller
\* has set the public attribute pods_updated_at to a str
InitData ==
    /\ hashes \in {[k \in Keys |-> IF k = "k1" THEN r1 ELSE r2] :
                     r1 \in {Record("started", Name(Segmentation1)),
                             Record("done", Name(Segmentation1))},
                     r2 \in {BadRecord, Record("started", Name(Segmentation1))}}
    /\ lists \in InitLists
    /\ now = 0
    /\ stale_time = StaleTime
    /\ pod_refresh_interval = RefreshInterval
    /\ pods_updated_at \in {NoneTime, BadStr}
    /\ InitFields

SpecData == InitData /\ [][Next]_vars

----------------------------------------------------------------------------
(* clean_key one redis command at a time, beside a worker, the expiry of    *)
(* records and the kill of the janitor's process                            *)

\* clean_key, lines 184-206: the record is read and judged; a repair is left
\* to the commands that follow
CleanKeyRead ==
    /\ pc = "sweep"
    /\ keys_left # <<>>
    /\ LET key == Head(keys_left)
           hvals == hgetall(hashes, key)
           stale == is_stale_update_time(hvals.updated_at, NoArg)
       IN /\ update_pods
          /\ IF upd'.raised \/ stale = "raise"
             THEN /\ last' = Called(key, hvals, "raise", "raise")
                  /\ Abort
                  /\ UNCHANGED frame
             ELSE IF stale = "false"
             THEN /\ last' = Called(key, hvals, "False", "Untouched")
                  /\ Continue(FALSE)
                  /\ UNCHANGED frame
             ELSE /\ frame' = [key |-> key, hvals |-> hvals,
                               new_status |-> NewStatus(hvals),
                               overwrote |-> FALSE]
                  /\ pc' = IF hvals.status \in {"done", "failed"}
                           THEN "remove" ELSE "hmset"
                  /\ UNCHANGED <<scan_left, keys_left, cleaned,
                                 cleaning_queue, quiet, last>>
    /\ UNCHANGED <<store, now, config, total_repairs, steps_back, probe,
                   orphan, requeues>>

\* clean_key returns True to clean()
Return(outcome) ==
    /\ last' = Called(frame.key, frame.hvals, "True", outcome)
    /\ keys_left' = Tail(keys_left)
    /\ cleaned' = cleaned + 1
    /\ pc' = "sweep"

\* clean_key, lines 197-200: the done or failed entry is removed
RemoveDone ==
    /\ pc = "remove"
    /\ lists' = remove_key_from_queue(lists, frame.key)
    /\ Return("Removed")
    /\ UNCHANGED <<hashes, now, config, podvars, total_repairs, cleaning_queue,
                   scan_left, quiet, steps_back, probe, racevars, requeues>>

\* restart_redis_key, lines 141-144: the HMSET
RestartHmset ==
    /\ pc = "hmset"
    /\ hashes' = hmset(hashes, frame.key, frame.new_status, isoformat(Dt(now)))
    /\ frame' = [frame EXCEPT !.overwrote =
                    hashes[frame.key].status \in {"done", "failed"}]
    /\ pc' = "lrem"
    /\ UNCHANGED <<lists, now, config, podvars, total_repairs, cleaning_queue,
                   scan_left, keys_left, cleaned, last, quiet, steps_back,
                   probe, orphan, requeues>>

\* restart_redis_key, line 145: remove_key_from_queue
RestartLrem ==
    /\ pc = "lrem"
    /\ lists' = remove_key_from_queue(lists, frame.key)
    /\ pc' = "lpush"
    /\ UNCHANGED <<hashes, now, config, podvars, total_repairs, cleaning_queue,
                   scan_left, keys_left, cleaned, last, quiet, steps_back,
                   probe, racevars, requeues>>

\* restart_redis_key, line 146: the LPUSH onto the work queue; clean_key
\* returns
RestartLpush ==
    /\ pc = "lpush"
    /\ lists' = lpush(lists, queue, frame.key)
    /\ requeues' = NoteRequeue(requeues, frame.key)
    /\ Return("Requeued")
    /\ UNCHANGED <<hashes, now, config, podvars, total_repairs, cleaning_queue,
                   scan_left, quiet, steps_back, probe, racevars>>

\* A worker finishes the entry it has started
WorkerFinish ==
    /\ \E k \in Keys :
        /\ hashes[k].status = "started"
        /\ hashes' = [hashes EXCEPT ![k] =
                        [@ EXCEPT !.status = "done",
                                  !.updated_at = isoformat(Dt(now))]]
    /\ UNCHANGED <<lists, now, config, podvars, total_repairs, cleaning_queue,
                   pc, scan_left, keys_left, cleaned, last, quiet, steps_back,
                   probe, racevars, requeues>>

\* A record expires or is deleted by its worker
Expire ==
    /\ \E k \in Keys :
        /\ hashes[k] # NoHash
        /\ hashes' = [hashes EXCEPT ![k] = NoHash]
    /\ UNCHANGED <<lists, now, config, podvars, total_repairs, cleaning_queue,
                   pc, scan_left, keys_left, cleaned, last, quiet, steps_back,
                   probe, racevars, requeues>>

\* The janitor's process is killed inside a sweep and started again: the new
\* instance is as __init__ leaves it, the store is as the old one left it
Kill ==
    /\ pc # "idle"
    /\ orphan' = IF pc = "lpush" THEN frame.key ELSE orphan
    /\ frame' = NoFrame
    /\ pods' = PodDict(<<>>)
    /\ pods_updated_at' = NoneTime
    /\ total_repairs' = 0
    /\ cleaning_queue' = <<>>
    /\ pc' = "idle"
    /\ scan_left' = <<>>
    /\ keys_left' = <<>>
    /\ cleaned' = 0
    /\ fetch' = NoFetch
    /\ upd' = NoUpd
    /\ quiet' = 0
    /\ UNCHANGED <<store, now, config, last, steps_back, probe, requeues>>

\* One entry, started by a worker and held in that worker's list
InitRace ==
    /\ \E w \in Workers :
        /\ hashes = [k \in Keys |-> IF k = "k1" THEN Record("started", Name(w))
                                    ELSE NoHash]
        /\ lists = [n \in ListNames |-> IF n = ConsumerList(w) THEN <<"k1">>
                                        ELSE <<>>]
    /\ now = 0
    /\ stale_time = StaleTime - 1
    /\ pod_refresh_interval = RefreshInterval
    /\ InitJanitor

NextRace ==
    \/ Clean
    \/ NextQueue
    \/ CleanKeyRead
    \/ RemoveDone
    \/ RestartHmset
    \/ RestartLrem
    \/ RestartLpush
    \/ CleanDone
    \/ Tick
    \/ WorkerFinish
    \/ Expire
    \/ Kill

SpecRace == InitRace /\ [][NextRace]_vars

----------------------------------------------------------------------------
(* update_pods called beside a wall clock that can be set back *)

UpdatePods ==
    /\ pc = "idle"
    /\ update_pods
    /\ UNCHANGED <<store, now, config, total_repairs, cleaning_queue, pc,
                   scan_left, keys_left, cleaned, last, quiet, steps_back,
                   probe, racevars, requeues>>

InitPods ==
    /\ hashes = [k \in Keys |-> NoHash]
    /\ lists = [n \in ListNames |-> <<>>]
    /\ now \in 0..MaxTime
    /\ stale_time = StaleTime
    /\ pod_refresh_interval = RefreshInterval
    /\ InitJanitor

NextPods ==
    \/ UpdatePods
    \/ Tick
    \/ ClockBack

SpecPods == InitPods /\ [][NextPods]_vars

----------------------------------------------------------------------------
(* is_stale_update_time called with every kind of argument *)

TimeInputs ==
    {NoneTime, EmptyStr, BadStr} \cup
    {isoformat(Dt(n)) : n \in 0..MaxTime} \cup {Dt(n) : n \in 0..MaxTime}

ArgInputs == {NoArg} \cup {IntArg(n) : n \in -2..(StaleTime + 1)}

IsStale ==
    \E updated_time \in TimeInputs, arg \in ArgInputs :
        /\ probe' = [updated_time |-> updated_time, arg |-> arg,
                     ret |-> is_stale_update_time(updated_time, arg),
                     at |-> now]
        /\ UNCHANGED <<store, now, config, podvars, total_repairs,
                       cleaning_queue, pc, scan_left, keys_left, cleaned, last,
                       quiet, steps_back, racevars, requeues>>

InitStale ==
    /\ hashes = [k \in Keys |-> NoHash]
    /\ lists = [n \in ListNames |-> <<>>]
    /\ now \in 0..MaxTime
    /\ stale_time \in -1..StaleTime
    /\ pod_refresh_interval = RefreshInterval
    /\ InitJanitor

NextStale == IsStale

SpecStale == InitStale /\ [][NextStale]_vars

----------------------------------------------------------------------------
(* The properties *)

\* This step is one call of clean_key: in a sweep only clean_key takes an id
\* off keys_left or ends the sweep while ids are left
IsCleanKeyStep ==
    /\ pc = "sweep"
    /\ keys_left # <<>>
    /\ (keys_left' = Tail(keys_left) \/ pc' = "idle")

\* The id, the record and the staleness that clean_key is called with
CallKey == Head(keys_left)
CallHvals == hgetall(hashes, CallKey)
CallStale == is_stale_update_time(CallHvals.updated_at, NoArg)
CallInProgress == CallHvals.status \notin {"done", "failed"}

\* C1: a stale entry whose status is done or failed makes clean_key return
\* True on the removal branch, and afterwards the id is no longer in the list
\* it was read from.
C1_StaleFinishedLeavesItsList ==
    [][(IsCleanKeyStep /\ ~CallInProgress /\ CallStale = "true")
        => /\ last'.ret = "True"
           /\ last'.outcome = "Removed"
           /\ CallKey \notin Elems(lists'[cleaning_queue])]_vars

\* C2: a stale in-progress entry whose updated_by matches no whitelist prefix
\* is requeued: the status becomes new, updated_at becomes the current time,
\* the id is gone from the list it was read from and is in the work queue.
C2_RequeueResetsAndMoves ==
    [][(IsCleanKeyStep /\ CallInProgress /\ CallStale = "true"
            /\ ~is_whitelisted(CallHvals.updated_by))
        => /\ last'.ret = "True"
           /\ last'.outcome = "Requeued"
           /\ hashes'[CallKey].status = "new"
           /\ hashes'[CallKey].updated_at = isoformat(Dt(now))
           /\ CallKey \notin Elems(lists'[cleaning_queue])
           /\ CallKey \in Elems(lists'[queue])]_vars

\* C3: a stale in-progress entry whose updated_by starts with a whitelist
\* prefix is requeued with the status it had: the status written is the
\* status read, updated_at becomes the current time and the id is pushed onto
\* the work queue.
C3_WhitelistedKeepsStatus ==
    [][(IsCleanKeyStep /\ CallInProgress /\ CallStale = "true"
            /\ is_whitelisted(CallHvals.updated_by))
        => /\ last'.ret = "True"
           /\ last'.outcome = "Requeued"
           /\ hashes'[CallKey].status = CallHvals.status
           /\ hashes'[CallKey].updated_at = isoformat(Dt(now))
           /\ Len(lists'[queue]) = Len(lists[queue]) + 1
           /\ Head(lists'[queue]) = CallKey]_vars

C3_Witness ==
    /\ last.outcome = "Requeued"
    /\ is_whitelisted(last.hvals.updated_by)
    /\ last.hvals.status = "started"
    /\ hashes[last.key].status = "started"
    /\ last.key \in Elems(lists[queue])

\* C4: an entry whose record is absent, or whose updated_at is younger than
\* stale_time, makes clean_key return False and leaves every record and
\* every list as it was.
C4_YoungOrAbsentUntouched ==
    [][(IsCleanKeyStep
            /\ \/ CallHvals = NoHash
               \/ /\ CanParse(CallHvals.updated_at)
                  /\ now - parse(CallHvals.updated_at).val < stale_time)
        => /\ last'.ret = "False"
           /\ last'.outcome = "Untouched"
           /\ hashes' = hashes
           /\ lists' = lists]_vars

C4_Witness ==
    /\ last.outcome = "Untouched"
    /\ last.hvals # NoHash
    /\ last.hvals.status = "started"
    /\ hashes[last.key] = last.hvals
    /\ last.key \in Elems(lists[last.q])

\* C5: two sweeps in a row, with no write and no tick of the clock from the
\* start of the first to the end of the second: the second repairs nothing.
C5_SecondSweepRepairsNothing ==
    (pc = "idle" /\ quiet = 2) => cleaned = 0

\* C6: is_stale_update_time given a threshold t <= 0 answers False, whatever
\* self.stale_time and whatever updated_at (here: every updated_at that is
\* absent, empty, a datetime or a string that parses).
C6_NonPositiveThresholdNeverStale ==
    (probe.ret # "none" /\ probe.arg.kind = "int" /\ probe.arg.val <= 0
        /\ probe.updated_time # BadStr)
        => probe.ret = "false"

\* C7: for a positive threshold t and a valid updated_at,
\* is_stale_update_time answers True exactly when now - updated_at >= t.
C7_InclusiveBoundary ==
    (probe.ret # "none" /\ probe.arg.kind = "int" /\ probe.arg.val > 0
        /\ (probe.updated_time.kind = "datetime"
            \/ CanParse(probe.updated_time)))
        => /\ probe.ret \in {"true", "false"}
           /\ (probe.ret = "true")
                <=> (probe.at - probe.updated_time.val >= probe.arg.val)

C7_Witness ==
    /\ probe.ret = "true"
    /\ probe.arg.kind = "int"
    /\ probe.arg.val > 0
    /\ CanParse(probe.updated_time)
    /\ probe.at - probe.updated_time.val = probe.arg.val

\* This step is one call of update_pods
IsUpdatePodsStep == upd'.flip # upd.flip

\* C8: update_pods called on first use, or when the snapshot is at least
\* pod_refresh_interval old, fetches the workers and sets pods_updated_at to
\* the current time.
C8_OldSnapshotIsRefetched ==
    [][(IsUpdatePodsStep
            /\ \/ pods_updated_at.kind = "none"
               \/ /\ pods_updated_at.kind = "datetime"
                  /\ now - pods_updated_at.val >= pod_refresh_interval)
        => /\ upd'.fetched
           /\ pods_updated_at' = Dt(now)]_vars

\* C9: any two fetches from the gateway are at least pod_refresh_interval
\* apart.
C9_OneFetchPerInterval ==
    fetch.min_gap = -1 \/ fetch.min_gap >= pod_refresh_interval

C9_Witness ==
    /\ fetch.made
    /\ upd.called
    /\ ~upd.fetched
    /\ now - fetch.last_at < pod_refresh_interval

\* C10, as claimed: a fetch that fails is not raised to the caller of
\* update_pods and leaves the pods mapping as it was.
C10_FailedFetchKeepsSnapshot ==
    [][(IsUpdatePodsStep /\ upd'.fetched /\ ~upd'.ok)
        => /\ ~upd'.raised
           /\ pods' = pods]_vars

\* C10, amended: a fetch that fails is not raised to the caller of
\* update_pods; the pods mapping becomes the empty mapping and
\* pods_updated_at the current time.
C10_FailedFetchEmptiesSnapshot ==
    [][(IsUpdatePodsStep /\ upd'.fetched /\ ~upd'.ok)
        => /\ ~upd'.raised
           /\ pods' = PodDict(<<>>)
           /\ pods_updated_at' = Dt(now)]_vars

C10_Witness ==
    /\ upd.called
    /\ upd.fetched
    /\ ~upd.ok
    /\ ~upd.raised
    /\ upd.before # PodDict(<<>>)
    /\ pods = PodDict(<<>>)

----------------------------------------------------------------------------
(* The repairs counter *)

IsCleanStep == pc = "idle" /\ pc' = "sweep"
IsCleanDoneStep == pc = "sweep" /\ keys_left = <<>> /\ pc' = "idle"
IsRepair(outcome) == outcome \in {"Removed", "Requeued"}

\* C11: a sweep counts exactly the calls of clean_key whose outcome is Removed
\* or Requeued; a completed sweep adds its count to total_repairs (nothing
\* when the count is zero), no other step changes total_repairs, and it never
\* decreases: total_repairs is the sum of the counts of the completed sweeps.
C11_TotalIsSumOfSweepCounts ==
    [][/\ IsCleanStep => cleaned' = 0
       /\ (IsCleanKeyStep /\ pc' = "sweep")
            => cleaned' = cleaned + (IF IsRepair(last'.outcome) THEN 1 ELSE 0)
       /\ IsCleanDoneStep
            => /\ total_repairs' = total_repairs + cleaned
               /\ cleaned = 0 => total_repairs' = total_repairs
               /\ cleaned > 0 => total_repairs' > total_repairs
       /\ ~IsCleanDoneStep => total_repairs' = total_repairs
       /\ total_repairs' >= total_repairs]_vars

\* Two sweeps that repaired are completed, the second after the first
C11_Witness ==
    /\ pc = "idle"
    /\ cleaned > 0
    /\ total_repairs > cleaned
    /\ IsRepair(last.outcome)

----------------------------------------------------------------------------
(* What a repair writes *)

\* C12: a call of clean_key writes at most the record of its own id, and only
\* on the requeue branch of an entry it judged stale; there it rewrites status
\* and updated_at and keeps every other field (updated_by). On the removal
\* branch no record is written and nothing is pushed onto the work queue. No
\* other step of the janitor writes a record.
C12_RepairWritesStatusAndTimeOnly ==
    [][/\ IsCleanKeyStep
            => /\ \A k \in Keys :
                    /\ hashes'[k].updated_by = hashes[k].updated_by
                    /\ k # CallKey => hashes'[k] = hashes[k]
               /\ hashes' # hashes
                    => (last'.outcome = "Requeued" /\ CallStale = "true")
               /\ last'.outcome = "Removed"
                    => (hashes' = hashes /\ lists'[queue] = lists[queue])
       /\ ~IsCleanKeyStep => hashes' = hashes]_vars

\* An entry a worker had claimed was requeued: status and updated_at are
\* rewritten, updated_by still names the worker
C12_Witness ==
    /\ last.outcome = "Requeued"
    /\ last.hvals.updated_by = Name(Segmentation1)
    /\ hashes[last.key].updated_by = Name(Segmentation1)
    /\ hashes[last.key].status # last.hvals.status
    /\ hashes[last.key].updated_at # last.hvals.updated_at

----------------------------------------------------------------------------
(* The repair decision and the pods snapshot *)

\* What a call of clean_key does, told from the record, the clock and the
\* whitelist alone
DecidedOutcome ==
    IF CallStale # "true" THEN "Untouched"
    ELSE IF ~CallInProgress THEN "Removed"
    ELSE "Requeued"

DecidedHashes ==
    IF DecidedOutcome # "Requeued" THEN hashes
    ELSE [hashes EXCEPT ![CallKey] =
            [status |-> IF is_whitelisted(CallHvals.updated_by)
                        THEN CallHvals.status ELSE "new",
             updated_at |-> isoformat(Dt(now)),
             updated_by |-> CallHvals.updated_by]]

DecidedLists ==
    LET removed == [lists EXCEPT ![processing_queue] = RemoveFirst(@, CallKey)]
    IN CASE DecidedOutcome = "Untouched" -> lists
         [] DecidedOutcome = "Removed" -> removed
         [] DecidedOutcome = "Requeued"
                -> [removed EXCEPT ![queue] = <<CallKey>> \o @]

\* C13: the outcome of a call of clean_key and what it writes to the store
\* are the same function of the store and the clock under every pods snapshot
\* the janitor holds before and after the call's update_pods: two calls from
\* the same store and clock with different snapshots do the same, and only
\* the whitelist decides whether the status is reset to new.
C13_DecisionIgnoresPods ==
    [][(IsCleanKeyStep /\ last'.ret # "raise")
        => /\ last'.outcome = DecidedOutcome
           /\ hashes' = DecidedHashes
           /\ lists' = DecidedLists]_vars

\* The entry of a worker that the snapshot shows Running was reset to new
C13_Witness ==
    /\ last.outcome = "Requeued"
    /\ last.hvals.updated_by = Name(Segmentation1)
    /\ Segmentation1 \in DOMAIN pods
    /\ pods[Segmentation1].phase = "Running"
    /\ hashes[last.key].status = "new"
    /\ last.hvals.status = "started"

----------------------------------------------------------------------------
(* Data errors *)

\* The call's update_pods or its staleness test raises
CallRaises ==
    \/ pods_updated_at.kind \notin {"none", "datetime"}
    \/ CallStale = "raise"

\* C14: an unparsable updated_at (staleness enabled) or a pods_updated_at that
\* is not a timestamp makes clean_key raise; nothing catches it: the sweep is
\* over at once with the ids after the offending one not inspected, the store
\* stays as the earlier repairs of the sweep left it, and total_repairs is
\* not increased, neither then nor later, for the count of that sweep.
C14_DataErrorAbortsSweep ==
    [][/\ (IsCleanKeyStep /\ CallRaises)
            => /\ last'.ret = "raise"
               /\ pc' = "idle"
               /\ keys_left' = <<>>
               /\ scan_left' = <<>>
               /\ hashes' = hashes
               /\ lists' = lists
               /\ total_repairs' = total_repairs
       /\ pc = "idle" => total_repairs' = total_repairs]_vars

\* A sweep requeued an entry and then met the unparsable record: the requeue
\* is in the store, the sweep is over, total_repairs has not counted it
C14_Witness ==
    /\ last.ret = "raise"
    /\ last.hvals.updated_at = BadStr
    /\ pc = "idle"
    /\ cleaned > 0
    /\ total_repairs = 0
    /\ lists[queue] # <<>>

----------------------------------------------------------------------------
(* The janitor beside a worker, expiry and kills *)

IsHmsetStep == pc = "hmset" /\ pc' = "lrem"
IsLpushStep == pc = "lpush" /\ pc' = "sweep"

\* C15: when a worker has set the status to done after clean_key read the
\* entry and judged it stale and in progress, the HMSET of restart_redis_key
\* still overwrites the status with the one chosen at the read (new, or the
\* in-progress status that was read, for a whitelisted worker), and the id is
\* then pushed onto the work queue: finished work is queued again.
C15_FinishedWorkIsRequeued ==
    [][/\ (IsHmsetStep /\ hashes[frame.key].status = "done")
            => /\ frame.hvals.status \notin {"done", "failed"}
               /\ frame.new_status \in {"new", frame.hvals.status}
               /\ hashes'[frame.key].status = frame.new_status
       /\ (IsLpushStep /\ frame.overwrote)
            => /\ Head(lists'[queue]) = frame.key
               /\ last'.outcome = "Requeued"]_vars

\* The worker finished between the read and the write; the record now says
\* new and the id is at the head of the work queue
C15_Witness ==
    /\ last.outcome = "Requeued"
    /\ frame.key = last.key
    /\ frame.overwrote
    /\ last.hvals.status = "started"
    /\ hashes[last.key].status = "new"
    /\ lists[queue] # <<>>
    /\ Head(lists[queue]) = last.key

\* C16: no step of the janitor, the workers or the expiry makes a record
\* exist that did not exist before the step: every record was created by a
\* producer.
C16_JanitorNeverCreatesRecord ==
    [][\A k \in Keys : hashes[k] = NoHash => hashes'[k] = NoHash]_vars

\* The lists the id occurs in
ListsHolding(k) == {n \in ListNames : k \in Elems(lists[n])}

\* C17: a requeue is HMSET, then the removal, then the LPUSH; once the process
\* was killed after the removal and before the LPUSH, the id is in no
\* processing list and not in the work queue, and no later sweep of the
\* restarted janitor pushes it onto the work queue.
C17_KilledRequeueIsLost ==
    [][/\ pc = "hmset" => pc' \in {"hmset", "lrem", "idle"}
       /\ pc = "lrem" => pc' \in {"lrem", "lpush", "idle"}
       /\ pc = "lpush" => pc' \in {"lpush", "sweep", "idle"}
       /\ orphan # ""
            => /\ ListsHolding(orphan) = {}
               /\ IsLpushStep => frame.key # orphan]_vars

----------------------------------------------------------------------------
(* The lists a sweep reads *)

\* C18: with no other writer, no step of a sweep changes a list whose name
\* matches `processing-<queue>:*`, the pattern of the scan: the removals of
\* the janitor go to the list `processing-<queue>`, which the scan never
\* yields.
C18_ScannedListsAreNeverChanged ==
    [][\A n \in ListNames : Matches(n) => lists'[n] = lists[n]]_vars

\* A sweep has removed a finished entry, and the id is still in the list it
\* was read from
C18_Witness ==
    /\ last.outcome = "Removed"
    /\ Matches(last.q)
    /\ last.key \in Elems(lists[last.q])
    /\ pc = "idle"
    /\ total_repairs > 0

----------------------------------------------------------------------------
(* Requeueing the same id again *)

\* C19: starting with an empty work queue and every id claimed once, after
\* any sweeps at any clock values and with no worker claiming, no id is
\* twice in the work queue.
C19_NoIdTwiceInWorkQueue == NoRepeat(lists[queue])

\* C20: with no other writer, two requeues of the same id, in one sweep or
\* in different sweeps, are at least stale_time seconds apart.
C20_RequeuesAreStaleTimeApart ==
    \A k \in Keys : requeues[k].gap = -1 \/ requeues[k].gap >= stale_time

\* An id was requeued, and requeued again exactly stale_time seconds later
C20_Witness ==
    \E k \in Keys :
        /\ requeues[k].gap = stale_time
        /\ last.key = k
        /\ last.outcome = "Requeued"
        /\ requeues[k].at = now

====
